---- MODULE Spec2Model ----
(***************************************************************************)
(* Frame-execution engine of sovereign_render: the command encoders, the   *)
(* graphics queue, the fence protocol of wait_for_previous_frame, the      *)
(* swapchain index, and the descriptor heaps.                              *)
(*                                                                         *)
(* The CPU side is one thread (Renderer::new, then the AboutToWait loop of *)
(* main); the GPU consumes the queue asynchronously in FIFO order.         *)
(***************************************************************************)
EXTENDS Integers, Sequences, FiniteSets, TLC

\* ------------------------------------------------------------------ bounds
MaxRenders == 3     \* render() calls issued by the application loop
MaxDraws   == 1     \* entities of a small scene
MaxCreates == 3     \* create_* calls on one descriptor heap
MaxCmds    == 2     \* recording calls a client issues on one encoder
MaxPrepares == 2    \* prepare() calls the application makes
MaxOver    == 1     \* entities by which a large scene exceeds a capacity
MaxAllocs  == 2     \* resources a Device client creates
MaxSize    == 3     \* largest byte size a Device client asks for
MaxDim     == 2     \* largest image width or height a Device client asks for
MaxElem    == 2     \* largest size_of::<T>() a Device client maps with
MaxMaps    == 1     \* map_buffer calls a Device client has outstanding
MaxPushes  == 4     \* Assets::push calls made on one table
MaxItem    == 1     \* items pushed are drawn from 0..MaxItem
MaxNodes   == 3     \* nodes of an imported document

\* --------------------------------------------------------- program constants
BufferCount == 2    \* swapchain_desc.BufferCount
InitialFenceValue == 1
InitialCompletedValue == 0

\* descriptor counts passed to create_descriptor_heap by Renderer::new
HeapCapacity == [rtv |-> 2, dsv |-> 1, cbv |-> 1000, sampler |-> 1000]
\* entries of the shared transform and material buffers
TransformCapacity == 1000
MaterialCapacity == 200
\* NumElements of the views of the two buffers
TransformViewElements == 1000
MaterialViewElements == 100
\* size_of::<T>() of the #[repr(C)] types that are mapped
SizeOf == [GlobalTransform |-> 64, MaterialUniform |-> 32, Vertex |-> 64, u32 |-> 4]
ViewBufferSize == 256
CheckerboardSide == 16
WindowSize == [width |-> 1280, height |-> 960]

Encoders == {"render", "immediate"}
ViewKinds == {"rtv", "dsv", "sampler", "srv", "cbv"}

VARIABLES
    pc,                 \* position of the CPU thread
    op,                 \* the Renderer method being executed: "none", "render", "immediate"
    last_op,            \* the method that returned last
    result,             \* what it returned: "none", "ok", "err"
    enc,                \* enc[e]: state and contents of each CommandEncoder's list
    queue,              \* work submitted to the graphics queue and not yet completed
    fence_value,        \* Renderer::fence_value
    fence_completed,    \* ID3D12Fence::GetCompletedValue()
    local_fence_value,  \* the local fence_value of wait_for_previous_frame
    registered,         \* fence values with a pending SetEventOnCompletion
    event,              \* fence_event is signaled (auto-reset event)
    blocked,            \* the running wait_for_previous_frame took the waiting branch
    frame_index,        \* Renderer::frame_index
    swap_index,         \* IDXGISwapChain3::GetCurrentBackBufferIndex()
    targets,            \* back-buffer indices recorded into by the last two recording render() calls
    trace,              \* the steps performed so far by the running method
    renders,            \* render() calls started
    submitted,          \* command lists handed to execute_command_lists
    items,              \* DescriptorHeap::items
    slots,              \* slots[i+1]: the descriptors written at slot i, in order, each
                        \* with its kind and the number of the create_* call that wrote it
    last_id,            \* the id returned by the last create_* (<<>> when it returns none)
    created,            \* create_* calls made on the heap
    client,             \* client[e]: the last call made on encoder e by a caller holding
                        \* &CommandEncoder, the list state before it, its outcome, and
                        \* the call made before it
    buffers,            \* Device::buffers: one AllocatedBuffer per entry, with its
                        \* byte size and the allocation it holds
    images,             \* Device::images: one AllocatedImage per entry
    allocs,             \* the allocations made by the Allocator, in order: the kind
                        \* of resource each was made for
    freed,              \* the allocations handed to free_resource, in order
    dropped,            \* the Device has been dropped
    mapped,             \* ids of the buffers mapped and not yet unmapped, in order
    dev_ret,            \* the last Device call and what it returned
    world,              \* the entities of the World and their components
    commands,           \* the CommandBuffer of the running prepare()
    drawn,              \* entities drawn by the last recording render(), in order
    prepares,           \* prepare() calls started
    heap_items,         \* items of the rtv, dsv and sampler heaps
    transform_writes,   \* element indices prepare() wrote through the mapping of
                        \* the transform buffer, in order
    material_writes,    \* the same for the material buffer
    bufviews,           \* Renderer::view_buffer, transform_buffer, material_buffer
    asset_items,        \* Assets::items
    asset_count,        \* Assets::count
    handles,            \* every handle returned by push, with the item pushed
    got,                \* the last call on the Assets table: the handle it returned
                        \* or took, and the item pushed or found (<<>> for None)
    gltf,               \* the Gltf returned by load_gltf: nodes and top_nodes
    spawned,            \* spawned[e]: the node entity e was spawned from (0: none)
    import_pc,          \* position of main between load_gltf and prepare
    staging,            \* the bytes of the staging buffer of the checkerboard upload
    draw_calls,         \* the calls the draw loop of the last recording render()
                        \* made on the encoder, in order, with their arguments
    srv_desc,           \* the D3D12_BUFFER_SRV of the views of the transform and
                        \* material buffers
    image_state,        \* image_state[i+1]: the resource state of swapchain buffer i
                        \* on the timeline of the queue
    rtv_views,          \* rtv_views[s+1]: the swapchain buffer viewed by slot s of
                        \* the rtv heap
    recorded,           \* what the last recording render() put into its list: the
                        \* transitions and the render-target view bound and cleared
    queued_lists        \* the contents of the render lists on the queue, in order

rvars == <<pc, op, last_op, result, enc, queue, fence_value, fence_completed,
           local_fence_value, registered, event, blocked, frame_index,
           swap_index, targets, trace, renders, submitted>>
hvars == <<items, slots, last_id, created>>
dvars == <<buffers, images, allocs, freed, dropped, mapped, dev_ret>>
svars == <<world, commands, drawn, prepares, heap_items, transform_writes,
           material_writes, bufviews>>
avars == <<asset_items, asset_count, handles, got>>
gvars == <<gltf, spawned, import_pc>>
yvars == <<staging, draw_calls, srv_desc>>
tvars == <<image_state, rtv_views, recorded, queued_lists>>
xvars == <<dvars, svars, avars, gvars, yvars, tvars>>
vars  == <<rvars, hvars, client, xvars>>

\* ------------------------------------------------------- CommandEncoder
ClosedEncoder == [state |-> "closed", cmds |-> 0]

\* reset(): allocator.Reset()? then list.Reset(..)?; either call can fail, and
\* list.Reset fails on a list that is still recording.
ResetOutcomes(s) ==
    IF s.state = "closed"
    THEN {[enc |-> [state |-> "recording", cmds |-> 0], res |-> "ok"],
          [enc |-> s, res |-> "err"]}
    ELSE {[enc |-> s, res |-> "err"]}

\* finish(): list.Close()? then cast; Close on a closed list returns an error
\* HRESULT, which `?` turns into Err.
FinishOutcomes(s) ==
    IF s.state = "recording"
    THEN {[enc |-> [s EXCEPT !.state = "closed"], res |-> "ok"],
          [enc |-> [s EXCEPT !.state = "closed"], res |-> "err"]}
    ELSE {[enc |-> s, res |-> "err"]}

\* any set_*/clear_*/transition_*/copy call: returns (), whatever the list state;
\* on a closed list the command is not part of any recording.
RecordOutcomes(s) ==
    IF s.state = "recording"
    THEN {[enc |-> [s EXCEPT !.cmds = @ + 1], res |-> "unit"]}
    ELSE {[enc |-> s, res |-> "unit"]}

RECURSIVE RecordMany(_, _)
RecordMany(s, n) ==
    IF n = 0 THEN s
    ELSE RecordMany((CHOOSE o \in RecordOutcomes(s) : TRUE).enc, n - 1)

\* recording calls of render(): 10 before the draw loop, 3 per entity, 1 after
RenderCmds(n) == 10 + 3 * n + 1
\* recording calls of the closure Renderer::new passes to immediate_submit
UploadCmds == 2

\* ------------------------------------------------------------ queue items
ListItem(e) == [type |-> "list", enc |-> e, value |-> 0]
SignalItem(v) == [type |-> "signal", enc |-> "none", value |-> v]

InFlight(e) == \E i \in 1..Len(queue) : queue[i].type = "list" /\ queue[i].enc = e
NoListQueued == \A i \in 1..Len(queue) : queue[i].type # "list"

CurEnc == IF op = "immediate" THEN "immediate" ELSE "render"

\* ---------------------------------------------------------- DescriptorHeap
RECURSIVE Extend(_, _)
Extend(s, n) == IF Len(s) >= n THEN s ELSE Extend(Append(s, <<>>), n)

\* the device writes a descriptor at heap start + idx * descriptor_size
WriteSlot(s, idx, d) == [Extend(s, idx + 1) EXCEPT ![idx + 1] = Append(@, d)]

ReturnsId(kind) == kind \in {"sampler", "srv", "cbv"}

\* create_*: the descriptor is written at slot `items` and `items` grows by one
HeapCreate(h, kind) ==
    [items |-> h.items + 1,
     slots |-> WriteSlot(h.slots, h.items, [kind |-> kind, call |-> h.created + 1]),
     last_id |-> IF ReturnsId(kind) THEN <<h.items>> ELSE <<>>,
     created |-> h.created + 1]

\* b, once a has been worked out: the loops below run front to back
After(a, b) == IF a = a THEN b ELSE a

\* ------------------------------------------------------------------ Device
\* a Device call: its arguments other than the id, the id it took or returned
\* (<<>> when none), and for map_buffer the length of the slice it returned
NoReturn == [call |-> "none", res |-> "none", id |-> <<>>, len |-> 0, arg |-> <<>>]

AllocatedBuffer(size, a) == [size |-> size, allocation |-> a]
AllocatedImage(width, height, a) == [width |-> width, height |-> height, allocation |-> a]

get_buffer(id) == buffers[id + 1]
get_image(id) == images[id + 1]

\* variant: buffers and images draw their ids from one shared counter
PushBuffer_SharedCounter(bufs, size, a) ==
    [table |-> Append(bufs, AllocatedBuffer(size, a)), id |-> Len(bufs) + Len(images)]

\* the tail of create_buffer after create_resource succeeded: the id is the
\* length of the table before the push
PushBuffer(bufs, size, a) ==
    [table |-> Append(bufs, AllocatedBuffer(size, a)), id |-> Len(bufs)]

PushImage(imgs, width, height, a) ==
    [table |-> Append(imgs, AllocatedImage(width, height, a)), id |-> Len(imgs)]

\* variant: the element count is rounded up
MapLen_RoundUp(size, elem) == (size + elem - 1) \div elem

\* length of the slice map_buffer::<T> builds over a buffer of `size` bytes
MapLen(size, elem) == size \div elem

RECURSIVE RemoveFirst(_, _)
RemoveFirst(s, x) ==
    IF s = <<>> THEN <<>>
    ELSE IF Head(s) = x THEN Tail(s)
    ELSE <<Head(s)>> \o RemoveFirst(Tail(s), x)

Allocations(table) == [i \in 1..Len(table) |-> table[i].allocation]

Init ==
    /\ pc = "new"
    /\ op = "none"
    /\ last_op = "none"
    /\ result = "none"
    /\ enc = [e \in Encoders |-> ClosedEncoder]
    /\ queue = <<>>
    /\ fence_value = InitialFenceValue
    /\ fence_completed = InitialCompletedValue
    /\ local_fence_value = 0
    /\ registered = {}
    /\ event = FALSE
    /\ blocked = FALSE
    /\ frame_index = 0
    /\ swap_index = 0
    /\ targets = <<>>
    /\ trace = <<>>
    /\ renders = 0
    /\ submitted = 0
    /\ items = 0
    /\ slots = <<>>
    /\ last_id = <<>>
    /\ created = 0
    /\ client = [e \in Encoders |->
                   [call |-> "none", before |-> "closed", outcome |-> "none", prev |-> "none"]]
    /\ buffers = <<>>
    /\ images = <<>>
    /\ allocs = <<>>
    /\ freed = <<>>
    /\ dropped = FALSE
    /\ mapped = <<>>
    /\ dev_ret = NoReturn
    /\ world = <<>>
    /\ commands = <<>>
    /\ drawn = <<>>
    /\ prepares = 0
    /\ heap_items = [h \in {"rtv", "dsv", "sampler"} |-> 0]
    /\ transform_writes = <<>>
    /\ material_writes = <<>>
    /\ bufviews = <<>>
    /\ asset_items = <<>>
    /\ asset_count = 0
    /\ handles = {}
    /\ got = [call |-> "none", idx |-> 0, item |-> <<>>]
    /\ gltf = [nodes |-> <<>>, top_nodes |-> <<>>]
    /\ spawned = <<>>
    /\ import_pc = "load"
    /\ staging = <<>>
    /\ draw_calls = <<>>
    /\ srv_desc = <<>>
    /\ image_state = [i \in 1..BufferCount |-> "PRESENT"]
    /\ rtv_views = <<>>
    /\ recorded = <<>>
    /\ queued_lists = <<>>


\* variant: main propagates the error of render() with `?`
Return_Propagates(r) ==
    /\ result' = r
    /\ last_op' = op
    /\ op' = "none"
    /\ pc' = IF r = "err" THEN "exit" ELSE "idle"

\* ------------------------------------------------------------ call / return
\* A method returns r: the application loop goes on after render() whatever it
\* returned (main.rs: the error is printed); an error of the immediate_submit
\* in Renderer::new is propagated with `?` and ends the program.
Return(r) ==
    /\ result' = r
    /\ last_op' = op
    /\ op' = "none"
    /\ pc' = IF op = "immediate" /\ r = "err" THEN "exit" ELSE "idle"

Step(label, next) ==
    /\ trace' = Append(trace, label)
    /\ pc' = next
    /\ UNCHANGED <<op, last_op, result>>

Fail(label) ==
    /\ trace' = Append(trace, label)
    /\ Return("err")

\* ------------------------------------------------------------ Renderer::new
\* the fields of the Renderer other than the position of the thread
rframe == <<op, last_op, result, enc, queue, fence_value, fence_completed,
            local_fence_value, registered, event, blocked, frame_index,
            swap_index, targets, trace, renders, submitted>>

\* the cbv_heap of the Renderer
Heap == [items |-> items, slots |-> slots, last_id |-> last_id, created |-> created]

SetHeap(h) ==
    /\ items' = h.items
    /\ slots' = h.slots
    /\ last_id' = h.last_id
    /\ created' = h.created

\* a `?` on an Err, or a panic: Renderer::new does not return a Renderer
Abort(how) ==
    /\ pc' = how
    /\ UNCHANGED <<rframe, hvars, client, xvars>>

\* heaps, render-target views, depth image and its view, encoders, fence, and
\* the view buffer
\* render_targets[i]: swapchain.GetBuffer(i), pushed in the order of the loop
RenderTargets == [i \in 1..BufferCount |-> i - 1]

\* for i in 0..2 { rtv_heap.create_rtv(&GetBuffer(i)); render_targets.push(..) }:
\* create_rtv writes the view at slot `items` of the heap and adds one to it
RECURSIVE RtvLoop(_, _, _)
RtvLoop(views, count, i) ==
    IF i >= BufferCount THEN views
    ELSE RtvLoop([s \in 1..(count + 1) |->
                     IF s = count + 1 THEN RenderTargets[i + 1] ELSE views[s]],
                 count + 1, i + 1)

NewCreate ==
    /\ pc = "new"
    /\ \/ LET img == PushImage(images, WindowSize.width, WindowSize.height, Len(allocs) + 1)
               buf == PushBuffer(buffers, ViewBufferSize, Len(allocs) + 2)
           IN  /\ images' = img.table
               /\ buffers' = buf.table
               /\ allocs' = allocs \o <<"image", "buffer">>
               /\ heap_items' = [heap_items EXCEPT !.rtv = @ + BufferCount, !.dsv = @ + 1]
               /\ rtv_views' = RtvLoop(rtv_views, heap_items.rtv, 0)
               /\ pc' = "n_map_view"
               /\ UNCHANGED <<rframe, hvars, client, avars, gvars, yvars, image_state, recorded,
                              queued_lists, freed, dropped, mapped,
                              dev_ret, world, commands, drawn, prepares,
                              transform_writes, material_writes, bufviews>>
       \/ Abort("exit")

\* variant: the view buffer stays mapped
NewUnmapView_Skipped ==
    /\ pc = "n_unmap_view"
    /\ pc' = "n_views"
    /\ UNCHANGED <<rframe, hvars, client, xvars>>

\* the copy of the ViewUniform, then unmap_buffer(view_buffer)
NewUnmapView ==
    /\ pc = "n_unmap_view"
    /\ mapped' = RemoveFirst(mapped, Len(buffers) - 1)
    /\ pc' = "n_views"
    /\ UNCHANGED <<rframe, hvars, client, avars, gvars, yvars, tvars, svars, buffers, images, allocs,
                   freed, dropped, dev_ret>>

\* map_buffer(id)?: the buffer created last is mapped
MapLast(next) ==
    \/ /\ mapped' = Append(mapped, Len(buffers) - 1)
       /\ pc' = next
       /\ UNCHANGED <<rframe, hvars, client, avars, gvars, yvars, tvars, svars, buffers, images, allocs,
                      freed, dropped, dev_ret>>
    \/ Abort("exit")

NewMapView == pc = "n_map_view" /\ MapLast("n_unmap_view")

\* the view of the view buffer, the transform and material buffers and their
\* views, and the Renderer value
NewViews ==
    /\ pc = "n_views"
    /\ \/ LET vb == Len(buffers) - 1
               h1 == HeapCreate(Heap, "cbv")
               b1 == PushBuffer(buffers, SizeOf.GlobalTransform * TransformCapacity,
                                Len(allocs) + 1)
               h2 == HeapCreate(h1, "srv")
               b2 == PushBuffer(b1.table, SizeOf.MaterialUniform * MaterialCapacity,
                                Len(allocs) + 2)
               h3 == HeapCreate(h2, "srv")
           IN  /\ SetHeap(h3)
               /\ buffers' = b2.table
               /\ allocs' = allocs \o <<"buffer", "buffer">>
               /\ bufviews' = [view_buffer |-> [buffer |-> vb, view |-> h1.last_id[1]],
                               transform_buffer |-> [buffer |-> b1.id, view |-> h2.last_id[1]],
                               material_buffer |-> [buffer |-> b2.id, view |-> h3.last_id[1]]]
               /\ srv_desc' =
                    [transform_buffer |->
                        [FirstElement |-> 0, NumElements |-> TransformViewElements,
                         StructureByteStride |-> SizeOf.GlobalTransform],
                     material_buffer |->
                        [FirstElement |-> 0, NumElements |-> MaterialViewElements,
                         StructureByteStride |-> SizeOf.MaterialUniform]]
               /\ pc' = "n_checkerboard"
               /\ UNCHANGED <<rframe, client, avars, gvars, staging, draw_calls, tvars, images, freed,
                              dropped, mapped,
                              dev_ret, world, commands, drawn, prepares, heap_items,
                              transform_writes, material_writes>>
       \/ Abort("exit")

\* the checkerboard image (create_image(..)?) and its staging buffer
\* (create_buffer(..).unwrap())
NewCheckerboard ==
    /\ pc = "n_checkerboard"
    /\ \/ LET img == PushImage(images, CheckerboardSide, CheckerboardSide, Len(allocs) + 1)
               buf == PushBuffer(buffers, CheckerboardSide * CheckerboardSide * SizeOf.u32,
                                 Len(allocs) + 2)
           IN  /\ images' = img.table
               /\ buffers' = buf.table
               /\ allocs' = allocs \o <<"image", "buffer">>
               /\ pc' = "n_map_staging"
               /\ UNCHANGED <<rframe, hvars, client, avars, gvars, yvars, tvars, svars, freed, dropped,
                              mapped, dev_ret>>
       \/ Abort("exit")
       \/ Abort("panic")

NewMapStaging == pc = "n_map_staging" /\ MapLast("n_unmap_staging")

\* a u32 written as its four bytes, most significant first (0xB3B2B1B0)
U32(b3, b2, b1, b0) == <<b3, b2, b1, b0>>
magenta == U32(255, 255, 0, 255)
black == U32(255, 0, 0, 0)

\* the u32 as it lies in memory (little-endian), read as u8
LeBytes(u) == <<u[4], u[3], u[2], u[1]>>

\* (i % 2) ^ (j % 2) on the two parities
Xor(a, b) == (a + b) % 2

\* variant: the colours are swapped
Checker_Swapped(i, j) == IF Xor(i % 2, j % 2) # 0 THEN black ELSE magenta

\* the value the loop body gives pixels[j * 16 + i]
Checker(i, j) == IF Xor(i % 2, j % 2) # 0 THEN magenta ELSE black

\* for j in 0..16 { pixels[j * 16 + i] = .. }: iterations j .. 15
RECURSIVE FillColumn(_, _, _)
FillColumn(px, i, j) ==
    IF j >= CheckerboardSide THEN px
    ELSE LET one == [px EXCEPT ![j * CheckerboardSide + i + 1] = Checker(i, j)]
         IN  After(one, FillColumn(one, i, j + 1))

\* for i in 0..16 { .. }: iterations i .. 15
RECURSIVE FillPixels(_, _)
FillPixels(px, i) ==
    IF i >= CheckerboardSide THEN px
    ELSE LET col == FillColumn(px, i, 0)
         IN  After(col, FillPixels(col, i + 1))

\* vec![0; 16 * 16] after the loops
Pixels == FillPixels([k \in 1..(CheckerboardSide * CheckerboardSide) |-> U32(0, 0, 0, 0)], 0)

\* copy_nonoverlapping(src as *const u8, dst, n): the first n bytes of the
\* mapping dst are those of the u32 array src
CopyBytes(dst, src, n) ==
    [b \in 1..Len(dst) |->
        IF b <= n THEN LeBytes(src[((b - 1) \div SizeOf.u32) + 1])[((b - 1) % SizeOf.u32) + 1]
        ELSE dst[b]]

\* the copy of size_of::<u32>() * pixels.len() bytes of the pixels into the
\* mapping, then unmap_buffer(buffer_id)
NewUnmapStaging ==
    /\ pc = "n_unmap_staging"
    /\ staging' = CopyBytes([b \in 1..MapLen(get_buffer(Len(buffers) - 1).size, 1) |-> 0],
                            Pixels, SizeOf.u32 * Len(Pixels))
    /\ mapped' = RemoveFirst(mapped, Len(buffers) - 1)
    /\ pc' = "idle"
    /\ UNCHANGED <<rframe, hvars, client, avars, gvars, svars, buffers, images, allocs,
                   freed, dropped, dev_ret, draw_calls, srv_desc, tvars>>

\* Renderer::new: the upload of the checkerboard image
CallImmediateSubmit ==
    /\ pc = "idle" /\ last_op = "none"
    /\ op' = "immediate"
    /\ pc' = "i_reset"
    /\ trace' = <<>>
    /\ blocked' = FALSE
    /\ UNCHANGED <<last_op, result, enc, queue, fence_value, fence_completed,
                   local_fence_value, registered, event, frame_index,
                   swap_index, targets, renders, submitted, hvars, client, xvars>>

\* ------------------------------------------------------------------- scene
\* an entity spawned by spawn_node for a node with a mesh: mesh handle,
\* material handle and world transform; the GPU components come with prepare()
MeshNode(i) ==
    [mesh |-> <<i - 1>>, material |-> <<i - 1>>, transform |-> <<i>>,
     gpu_mesh |-> <<>>, gpu_material |-> <<>>, gpu_transform |-> <<>>]

\* a node without mesh, or the camera: a world transform only
PlainNode(i) ==
    [mesh |-> <<>>, material |-> <<>>, transform |-> <<i>>,
     gpu_mesh |-> <<>>, gpu_material |-> <<>>, gpu_transform |-> <<>>]

\* the world after the spawns of main: k mesh nodes and t other entities
Scene(k, t) == [i \in 1..(k + t) |-> IF i <= k THEN MeshNode(i) ELSE PlainNode(i)]

\* the mesh a handle of the scene resolves to in Assets<Mesh>
SceneMesh == [vertices |-> 3, indices |-> 3]

SmallScenes ==
    {sc \in (0..MaxDraws) \X (0..MaxDraws) : sc[1] + sc[2] \in 1..MaxDraws}

\* scenes that fill the cbv heap and the transform array, or exceed them
HeapFree == HeapCapacity.cbv - 3
\* (and, for comparison, a scene of a few mesh nodes that exceeds nothing)
LargeScenes ==
    {<<HeapFree + o, TransformCapacity - HeapFree>> : o \in 0..MaxOver}
        \cup {<<MaxDraws + 1, 0>>}

\* items.get(handle.idx)
AssetsGet(its, idx) == IF idx < Len(its) THEN <<its[idx + 1]>> ELSE <<>>

\* the Assets<Material> of a scene of k mesh nodes: handle j resolves to the
\* material pushed j-th, whose uniform block is named by j; with missing = 1
\* the handle of the last mesh node is not in the table
SceneMaterials(k, missing) == [j \in 1..(k - missing) |-> [uniform |-> <<"uniform", j - 1>>]]

LoadScene(scenes, missing) ==
    /\ pc = "idle" /\ last_op = "immediate"
    /\ prepares = 0
    /\ \E sc \in scenes : \E m \in missing :
         /\ m <= sc[1]
         /\ world' = Scene(sc[1], sc[2])
         /\ asset_items' = SceneMaterials(sc[1], m)
         /\ asset_count' = sc[1] - m
    /\ UNCHANGED <<rvars, hvars, client, dvars, gvars, yvars, tvars, handles, got, commands,
                   drawn, prepares, heap_items, transform_writes, material_writes,
                   bufviews>>

SpawnScene == world = <<>> /\ LoadScene(SmallScenes, {0, 1})
SpawnLargeScene == world = <<>> /\ LoadScene(LargeScenes, {0})
\* scenes in which render() draws more than one entity
SpawnDrawScene == world = <<>> /\ LoadScene({<<MaxDraws + 1, 0>>, <<MaxDraws + 1, 1>>}, {0})

\* the entities a query over component c (or over all of cs) yields, in order
Matching(w, cs) ==
    LET Has(i) == \A c \in cs : w[i][c] # <<>>
    IN  SelectSeq([i \in 1..Len(w) |-> i], Has)

\* variant: the render query yields every matching entity twice
Drawable_Twice(w) ==
    Matching(w, {"gpu_mesh", "gpu_material", "gpu_transform"})
        \o Matching(w, {"gpu_mesh", "gpu_material", "gpu_transform"})

\* mesh_query: (&GPUMesh, &GPUMaterial, &GPUTransform)
Drawable(w) == Matching(w, {"gpu_mesh", "gpu_material", "gpu_transform"})

\* ----------------------------------------------------------------- prepare
InsertOne(e, c, v) == [entity |-> e, component |-> c, value |-> v]

\* CommandBuffer::run_on: the insert_one commands lo..hi are applied in order,
\* a later insert of a component replacing an earlier one
RECURSIVE RunOn(_, _, _, _)
RunOn(cmds, w, lo, hi) ==
    IF lo > hi THEN w
    ELSE IF lo = hi
    THEN [w EXCEPT ![cmds[lo].entity][cmds[lo].component] = <<cmds[lo].value>>]
    ELSE LET mid == (lo + hi) \div 2
             left == RunOn(cmds, w, lo, mid)
         IN  After(left, RunOn(cmds, left, mid + 1, hi))

\* map_buffer(id), a copy, unmap_buffer(id)
MapCopyUnmap(m, id) == RemoveFirst(Append(m, id), id)

\* <*const T>::offset(count): count elements of T, as a byte offset
PtrOffset(count, elem) == count * elem

\* the closure of the mesh pass for entity e: vertex buffer, its view, index
\* buffer, and the GPUMesh command; st holds the device tables, the cbv heap,
\* the mapped buffers and the command batch
MeshStep(st, e) ==
    LET vb == PushBuffer(st.buffers, SceneMesh.vertices * SizeOf.Vertex, Len(st.allocs) + 1)
        h  == HeapCreate(st.heap, "srv")
        ib == PushBuffer(vb.table, SceneMesh.indices * SizeOf.u32, Len(st.allocs) + 2)
    IN  [buffers  |-> ib.table,
         allocs   |-> st.allocs \o <<"buffer", "buffer">>,
         heap     |-> h,
         mapped   |-> MapCopyUnmap(MapCopyUnmap(st.mapped, vb.id), ib.id),
         commands |-> Append(st.commands, InsertOne(e, "gpu_mesh",
                         [vertex_buffer |-> [buffer |-> vb.id, view |-> h.last_id[1]],
                          index_buffer |-> ib.id,
                          index_count |-> SceneMesh.indices]))]

\* for_each over the entities es[lo..hi] of prepare_mesh_query
RECURSIVE MeshPass(_, _, _, _)
MeshPass(st, es, lo, hi) ==
    IF lo > hi THEN st
    ELSE IF lo = hi THEN MeshStep(st, es[lo])
    ELSE LET mid == (lo + hi) \div 2
             left == MeshPass(st, es, lo, mid)
         IN  After(left, MeshPass(left, es, mid + 1, hi))

\* what the closure copies for entity e: the GlobalTransform, or the uniform
\* of materials.get(handle).unwrap() (<<>> when get returns None)
Resolve(gpu, e) ==
    IF gpu = "gpu_transform" THEN world[e].transform
    ELSE LET m == AssetsGet(asset_items, world[e].material[1])
         IN  IF m = <<>> THEN <<>> ELSE <<m[1].uniform>>

\* the closure of the transform / material pass for (idx, entity): a copy of
\* elem bytes through data.as_ptr().offset(idx * size_of::<T>()), without a
\* bounds check, and the command attaching offset idx
EntryStep(st, e, idx, gpu, elem, view) ==
    [writes   |-> Append(st.writes, [idx |-> idx, at |-> PtrOffset(idx * elem, elem),
                                     entity |-> e, value |-> Resolve(gpu, e)[1]]),
     commands |-> Append(st.commands, InsertOne(e, gpu, [buffer |-> view, offset |-> idx]))]

\* enumerate().for_each over the entities es[lo..hi]
RECURSIVE EntryPass(_, _, _, _, _, _, _)
EntryPass(st, es, lo, hi, gpu, elem, view) ==
    IF lo > hi THEN st
    ELSE IF lo = hi THEN EntryStep(st, es[lo], lo - 1, gpu, elem, view)
    ELSE LET mid == (lo + hi) \div 2
             left == EntryPass(st, es, lo, mid, gpu, elem, view)
         IN  After(left, EntryPass(left, es, mid + 1, hi, gpu, elem, view))

\* the copies of a pass over n entities that end past the mapped buffer
OutOfBounds(n, elem, size) ==
    {idx \in 0..(n - 1) : PtrOffset(idx * elem, elem) + elem > size}

Min(S) == CHOOSE x \in S : \A y \in S : x <= y

CallPrepare ==
    /\ pc = "idle" /\ last_op # "none"
    /\ prepares < MaxPrepares
    /\ pc' = "p_mesh"
    /\ prepares' = prepares + 1
    /\ commands' = <<>>
    /\ transform_writes' = <<>>
    /\ material_writes' = <<>>
    /\ UNCHANGED <<rframe, hvars, client, dvars, avars, gvars, yvars, tvars, world, drawn, heap_items,
                   bufviews>>

\* the mesh pass; every fallible call in it is unwrapped
PrepareMeshes ==
    /\ pc = "p_mesh"
    /\ LET es == Matching(world, {"mesh"})
           st == MeshPass([buffers |-> buffers, allocs |-> allocs, heap |-> Heap,
                           mapped |-> mapped, commands |-> commands],
                          es, 1, Len(es))
       IN  \/ /\ buffers' = st.buffers
              /\ allocs' = st.allocs
              /\ SetHeap(st.heap)
              /\ mapped' = st.mapped
              /\ commands' = st.commands
              /\ pc' = "p_map_transform"
              /\ UNCHANGED <<rframe, client, avars, gvars, yvars, tvars, images, freed, dropped, dev_ret,
                             world, drawn, prepares, heap_items, transform_writes,
                             material_writes, bufviews>>
           \/ /\ es # <<>>
              /\ Abort("panic")

\* map_buffer(..).unwrap() of a shared buffer
PrepareMap(id, next) ==
    \/ /\ mapped' = Append(mapped, id)
       /\ pc' = next
       /\ UNCHANGED <<rframe, hvars, client, avars, gvars, yvars, tvars, svars, buffers, images, allocs,
                      freed, dropped, dev_ret>>
    \/ Abort("panic")

PrepareUnmap(id, next) ==
    /\ mapped' = RemoveFirst(mapped, id)
    /\ pc' = next
    /\ UNCHANGED <<rframe, hvars, client, avars, gvars, yvars, tvars, svars, buffers, images, allocs,
                   freed, dropped, dev_ret>>

\* a transform / material pass. A copy that ends past the buffer is undefined
\* behaviour: it lands in foreign memory and the pass goes on, or the process
\* dies of an access violation at the first such copy. The unwrap of a handle
\* that is not in the table panics before the copy for that entity.
PassOutcomes(c, gpu, elem, view, next) ==
    LET es   == Matching(world, {c})
        out  == OutOfBounds(Len(es), elem, get_buffer(view.buffer).size)
        none == {k \in 1..Len(es) : Resolve(gpu, es[k]) = <<>>}
        last == IF none = {} THEN Len(es) ELSE Min(none) - 1
        new  == [writes |-> <<>>, commands |-> commands]
        all  == EntryPass(new, es, 1, last, gpu, elem, view)
        some == EntryPass(new, es, 1, Min(out) + 1, gpu, elem, view)
    IN  {[writes |-> all.writes,
          commands |-> IF none = {} THEN all.commands ELSE commands,
          pc |-> IF none = {} THEN next ELSE "panic"]}
        \cup (IF out = {} \/ Min(out) + 1 > last THEN {}
              ELSE {[writes |-> some.writes, commands |-> commands, pc |-> "crash"]})

PrepareMapTransforms ==
    /\ pc = "p_map_transform"
    /\ PrepareMap(bufviews.transform_buffer.buffer, "p_transform")

\* variant: the transform pass attaches its components as it goes
PrepareTransforms_AttachesAtOnce ==
    /\ pc = "p_transform"
    /\ \E r \in PassOutcomes("transform", "gpu_transform", SizeOf.GlobalTransform,
                              bufviews.transform_buffer, "p_unmap_transform") :
         /\ transform_writes' = r.writes
         /\ world' = RunOn(r.commands, world, 1, Len(r.commands))
         /\ commands' = r.commands
         /\ pc' = r.pc
    /\ UNCHANGED <<rframe, hvars, client, dvars, avars, gvars, yvars, tvars, drawn, prepares,
                   heap_items, material_writes, bufviews>>

PrepareTransforms ==
    /\ pc = "p_transform"
    /\ \E r \in PassOutcomes("transform", "gpu_transform", SizeOf.GlobalTransform,
                              bufviews.transform_buffer, "p_unmap_transform") :
         /\ transform_writes' = r.writes
         /\ commands' = r.commands
         /\ pc' = r.pc
    /\ UNCHANGED <<rframe, hvars, client, dvars, avars, gvars, yvars, tvars, world, drawn, prepares,
                   heap_items, material_writes, bufviews>>

PrepareUnmapTransforms ==
    /\ pc = "p_unmap_transform"
    /\ PrepareUnmap(bufviews.transform_buffer.buffer, "p_map_material")

PrepareMapMaterials ==
    /\ pc = "p_map_material"
    /\ PrepareMap(bufviews.material_buffer.buffer, "p_material")

PrepareMaterials ==
    /\ pc = "p_material"
    /\ \E r \in PassOutcomes("material", "gpu_material", SizeOf.MaterialUniform,
                              bufviews.material_buffer, "p_unmap_material") :
         /\ material_writes' = r.writes
         /\ commands' = r.commands
         /\ pc' = r.pc
    /\ UNCHANGED <<rframe, hvars, client, dvars, avars, gvars, yvars, tvars, world, drawn, prepares,
                   heap_items, transform_writes, bufviews>>

PrepareUnmapMaterials ==
    /\ pc = "p_unmap_material"
    /\ PrepareUnmap(bufviews.material_buffer.buffer, "p_apply")

\* commands.run_on(world.get_mut()); Ok(())
PrepareApply ==
    /\ pc = "p_apply"
    /\ world' = RunOn(commands, world, 1, Len(commands))
    /\ commands' = <<>>
    /\ pc' = "idle"
    /\ UNCHANGED <<rframe, hvars, client, dvars, avars, gvars, yvars, tvars, drawn, prepares, heap_items,
                   transform_writes, material_writes, bufviews>>

\* main: Event::AboutToWait
CallRender ==
    /\ pc = "idle" /\ last_op # "none"
    /\ renders < MaxRenders
    /\ op' = "render"
    /\ pc' = "r_reset"
    /\ trace' = <<>>
    /\ blocked' = FALSE
    /\ renders' = renders + 1
    /\ UNCHANGED <<last_op, result, enc, queue, fence_value, fence_completed,
                   local_fence_value, registered, event, frame_index,
                   swap_index, targets, submitted, hvars, client, xvars>>


\* variant: the Result of reset() is dropped and recording goes on
ResetEncoder_Unchecked(e, next) ==
    \E o \in ResetOutcomes(enc[e]) :
        /\ enc' = [enc EXCEPT ![e] = o.enc]
        /\ Step("reset", next)
        /\ UNCHANGED <<queue, fence_value, fence_completed, local_fence_value,
                       registered, event, blocked, frame_index, swap_index,
                       targets, renders, submitted, hvars, client, xvars>>

\* ------------------------------------------------------------ encoder steps
ResetEncoder(e, next) ==
    \E o \in ResetOutcomes(enc[e]) :
        /\ enc' = [enc EXCEPT ![e] = o.enc]
        /\ IF o.res = "ok" THEN Step("reset", next) ELSE Fail("reset")
        /\ UNCHANGED <<queue, fence_value, fence_completed, local_fence_value,
                       registered, event, blocked, frame_index, swap_index,
                       targets, renders, submitted, hvars, client, xvars>>

FinishEncoder(e, next) ==
    \E o \in FinishOutcomes(enc[e]) :
        /\ enc' = [enc EXCEPT ![e] = o.enc]
        /\ IF o.res = "ok" THEN Step("finish", next) ELSE Fail("finish")
        /\ UNCHANGED <<queue, fence_value, fence_completed, local_fence_value,
                       registered, event, blocked, frame_index, swap_index,
                       targets, renders, submitted, hvars, client, xvars>>

\* Queue::execute_command_lists
SubmitList(e, next) ==
    /\ queue' = Append(queue, ListItem(e))
    /\ submitted' = submitted + 1
    /\ queued_lists' = IF e = "render" THEN Append(queued_lists, recorded) ELSE queued_lists
    /\ Step("submit", next)
    /\ UNCHANGED <<enc, fence_value, fence_completed, local_fence_value,
                   registered, event, blocked, frame_index, swap_index,
                   targets, renders, hvars, client, dvars, svars, avars, gvars, yvars,
                   image_state, rtv_views, recorded>>

LastTwo(s) == IF Len(s) <= 2 THEN s ELSE SubSeq(s, Len(s) - 1, Len(s))

\* ------------------------------------------------------------------ render
RenderReset == pc = "r_reset" /\ ResetEncoder("render", "r_record")

\* variant: the material view index is taken from the transform
RenderResources_TransformView(mesh, material, transform) ==
    [vertex_buffer_id |-> mesh.vertex_buffer.view,
     transform_buffer_id |-> transform.buffer.view,
     transform_offset |-> transform.offset,
     view_buffer_index |-> bufviews.view_buffer.view,
     material_buffer_index |-> transform.buffer.view,
     material_offset |-> material.offset]

\* the RenderResources built by the closure of the draw loop
RenderResources(mesh, material, transform) ==
    [vertex_buffer_id |-> mesh.vertex_buffer.view,
     transform_buffer_id |-> transform.buffer.view,
     transform_offset |-> transform.offset,
     view_buffer_index |-> bufviews.view_buffer.view,
     material_buffer_index |-> material.buffer.view,
     material_offset |-> material.offset]

\* the three calls the closure makes for one entity
DrawCommands(mesh, material, transform) ==
    <<[call |-> "set_root_constants",
       args |-> RenderResources(mesh, material, transform)],
      [call |-> "bind_index_buffer",
       args |-> [buffer |-> mesh.index_buffer,
                 size_in_bytes |-> mesh.index_count * SizeOf.u32]],
      [call |-> "draw_indexed_instanced",
       args |-> [index_count |-> mesh.index_count, instance_count |-> 1]]>>

\* for_each over the entities es[k..] of mesh_query
RECURSIVE DrawLoop(_, _, _)
DrawLoop(w, es, k) ==
    IF k > Len(es) THEN <<>>
    ELSE DrawCommands(w[es[k]].gpu_mesh[1], w[es[k]].gpu_material[1],
                      w[es[k]].gpu_transform[1])
         \o DrawLoop(w, es, k + 1)

\* transition_image(resource, state_before, state_after)
Transition(image, before, after) == [image |-> image, before |-> before, after |-> after]

\* variant: the list ends without the transition back to PRESENT
RenderList_NoTransitionBack(f) ==
    [transitions |-> <<Transition(RenderTargets[f + 1], "PRESENT", "RENDER_TARGET")>>,
     rtv |-> f]

\* what render() records about its target: the transition of
\* render_targets[frame_index] to RENDER_TARGET, the view at
\* rtv_heap.get_handle(frame_index) bound and cleared, and after the draws the
\* transition back to PRESENT
RenderList(f) ==
    [transitions |-> <<Transition(RenderTargets[f + 1], "PRESENT", "RENDER_TARGET"),
                       Transition(RenderTargets[f + 1], "RENDER_TARGET", "PRESENT")>>,
     rtv |-> f]

RenderRecord ==
    /\ pc = "r_record"
    /\ drawn' = Drawable(world)
    /\ draw_calls' = DrawLoop(world, Drawable(world), 1)
    /\ recorded' = RenderList(frame_index)
    /\ enc' = [enc EXCEPT !["render"] = RecordMany(@, RenderCmds(Len(Drawable(world))))]
    /\ targets' = LastTwo(Append(targets, frame_index))
    /\ Step("record", "r_finish")
    /\ UNCHANGED <<queue, fence_value, fence_completed, local_fence_value,
                   registered, event, blocked, frame_index, swap_index,
                   renders, submitted, hvars, client, dvars, avars, gvars, staging,
                   srv_desc, image_state, rtv_views, queued_lists, world, commands, prepares, heap_items, transform_writes,
                   material_writes, bufviews>>

RenderFinish == pc = "r_finish" /\ FinishEncoder("render", "r_submit")

RenderSubmit == pc = "r_submit" /\ SubmitList("render", "r_present")

\* swapchain.Present(1, 0).ok()?: a successful Present of the flip-model
\* swapchain makes the next buffer current
RenderPresent ==
    /\ pc = "r_present"
    /\ \/ /\ swap_index' = (swap_index + 1) % BufferCount
          /\ Step("present", "w_signal")
       \/ /\ UNCHANGED swap_index
          /\ Fail("present")
    /\ UNCHANGED <<enc, queue, fence_value, fence_completed, local_fence_value,
                   registered, event, blocked, frame_index, targets, renders,
                   submitted, hvars, client, xvars>>

\* -------------------------------------------------------- immediate_submit
ImmediateReset == pc = "i_reset" /\ ResetEncoder("immediate", "i_record")

\* f(self, &self.immediate_command_encoder)
ImmediateRecord ==
    /\ pc = "i_record"
    /\ enc' = [enc EXCEPT !["immediate"] = RecordMany(@, UploadCmds)]
    /\ Step("record", "i_finish")
    /\ UNCHANGED <<queue, fence_value, fence_completed, local_fence_value,
                   registered, event, blocked, frame_index, swap_index,
                   targets, renders, submitted, hvars, client, xvars>>

ImmediateFinish == pc = "i_finish" /\ FinishEncoder("immediate", "i_submit")

ImmediateSubmit == pc = "i_submit" /\ SubmitList("immediate", "w_signal")


\* variant: frame_index is advanced together with the signal, before the wait
WaitSignal_AdvancesFrame ==
    /\ pc = "w_signal"
    /\ local_fence_value' = fence_value
    /\ \/ /\ queue' = Append(queue, SignalItem(fence_value))
          /\ fence_value' = fence_value + 1
          /\ frame_index' = swap_index
          /\ Step("signal", "w_check")
       \/ /\ UNCHANGED <<queue, fence_value, frame_index>>
          /\ Fail("signal")
    /\ UNCHANGED <<enc, fence_completed, registered, event, blocked,
                   swap_index, targets, renders, submitted, hvars, client, xvars>>

\* variant: self.fence_value is incremented before the signal is attempted
WaitSignal_IncrementFirst ==
    /\ pc = "w_signal"
    /\ local_fence_value' = fence_value
    /\ fence_value' = fence_value + 1
    /\ \/ /\ queue' = Append(queue, SignalItem(fence_value))
          /\ Step("signal", "w_check")
       \/ /\ UNCHANGED queue
          /\ Fail("signal")
    /\ UNCHANGED <<enc, fence_completed, registered, event, blocked,
                   frame_index, swap_index, targets, renders, submitted,
                   hvars, client, xvars>>

\* ------------------------------------------------- wait_for_previous_frame
\* let fence_value = self.fence_value; signal(&fence, fence_value)?; self.fence_value += 1
WaitSignal ==
    /\ pc = "w_signal"
    /\ local_fence_value' = fence_value
    /\ \/ /\ queue' = Append(queue, SignalItem(fence_value))
          /\ fence_value' = fence_value + 1
          /\ Step("signal", "w_check")
       \/ /\ UNCHANGED <<queue, fence_value>>
          /\ Fail("signal")
    /\ UNCHANGED <<enc, fence_completed, registered, event, blocked,
                   frame_index, swap_index, targets, renders, submitted,
                   hvars, client, xvars>>


\* variant: the comparison is <= instead of <
WaitCheck_LessEqual ==
    /\ pc = "w_check"
    /\ IF fence_completed <= local_fence_value
       THEN /\ pc' = "w_register"
            /\ blocked' = TRUE
       ELSE /\ pc' = "w_frame"
            /\ UNCHANGED blocked
    /\ UNCHANGED <<op, last_op, result, enc, queue, fence_value,
                   fence_completed, local_fence_value, registered, event,
                   frame_index, swap_index, targets, trace, renders,
                   submitted, hvars, client, xvars>>

\* variant: the completed value is compared with the value signaled by the
\* call before (an off-by-one in the value waited for)
WaitCheck_StaleValue ==
    /\ pc = "w_check"
    /\ IF fence_completed < local_fence_value - 1
       THEN /\ pc' = "w_register"
            /\ blocked' = TRUE
       ELSE /\ pc' = "w_frame"
            /\ UNCHANGED blocked
    /\ UNCHANGED <<op, last_op, result, enc, queue, fence_value,
                   fence_completed, local_fence_value, registered, event,
                   frame_index, swap_index, targets, trace, renders,
                   submitted, hvars, client, xvars>>

\* if self.fence.GetCompletedValue() < fence_value
WaitCheck ==
    /\ pc = "w_check"
    /\ IF fence_completed < local_fence_value
       THEN /\ pc' = "w_register"
            /\ blocked' = TRUE
       ELSE /\ pc' = "w_frame"
            /\ UNCHANGED blocked
    /\ UNCHANGED <<op, last_op, result, enc, queue, fence_value,
                   fence_completed, local_fence_value, registered, event,
                   frame_index, swap_index, targets, trace, renders,
                   submitted, hvars, client, xvars>>

\* variant: the event is registered for the value after the one signaled
WaitRegister_NextValue ==
    /\ pc = "w_register"
    /\ \/ /\ IF fence_completed >= local_fence_value + 1
             THEN event' = TRUE /\ UNCHANGED registered
             ELSE registered' = registered \cup {local_fence_value + 1} /\ UNCHANGED event
          /\ Step("register", "w_wait")
       \/ /\ UNCHANGED <<registered, event>>
          /\ Fail("register")
    /\ UNCHANGED <<enc, queue, fence_value, fence_completed, local_fence_value,
                   blocked, frame_index, swap_index, targets, renders,
                   submitted, hvars, client, xvars>>

\* self.fence.SetEventOnCompletion(fence_value, self.fence_event)?
WaitRegister ==
    /\ pc = "w_register"
    /\ \/ /\ IF fence_completed >= local_fence_value
             THEN event' = TRUE /\ UNCHANGED registered
             ELSE registered' = registered \cup {local_fence_value} /\ UNCHANGED event
          /\ Step("register", "w_wait")
       \/ /\ UNCHANGED <<registered, event>>
          /\ Fail("register")
    /\ UNCHANGED <<enc, queue, fence_value, fence_completed, local_fence_value,
                   blocked, frame_index, swap_index, targets, renders,
                   submitted, hvars, client, xvars>>


\* variant: the wait returns at once (a zero timeout)
WaitForSingleObject_NoBlock ==
    /\ pc = "w_wait"
    /\ event' = FALSE
    /\ Step("wait", "w_frame")
    /\ UNCHANGED <<enc, queue, fence_value, fence_completed, local_fence_value,
                   registered, blocked, frame_index, swap_index, targets,
                   renders, submitted, hvars, client, xvars>>

\* WaitForSingleObject(self.fence_event, u32::MAX)
WaitForSingleObject ==
    /\ pc = "w_wait"
    /\ event
    /\ event' = FALSE
    /\ Step("wait", "w_frame")
    /\ UNCHANGED <<enc, queue, fence_value, fence_completed, local_fence_value,
                   registered, blocked, frame_index, swap_index, targets,
                   renders, submitted, hvars, client, xvars>>

\* self.frame_index = swapchain.GetCurrentBackBufferIndex(); Ok(())
WaitFrameIndex ==
    /\ pc = "w_frame"
    /\ frame_index' = swap_index
    /\ trace' = Append(trace, "frame_index")
    /\ Return("ok")
    /\ UNCHANGED <<enc, queue, fence_value, fence_completed, local_fence_value,
                   registered, event, blocked, swap_index, targets, renders,
                   submitted, hvars, client, xvars>>

\* --------------------------------------------------------------------- GPU
\* the queue completes the command list at its head
\* the resource states once the barriers ts have run in order
RECURSIVE Execute(_, _)
Execute(states, ts) ==
    IF ts = <<>> THEN states
    ELSE Execute([states EXCEPT ![Head(ts).image + 1] = Head(ts).after], Tail(ts))

GpuExecuteList ==
    /\ queue # <<>> /\ Head(queue).type = "list"
    /\ queue' = Tail(queue)
    /\ IF Head(queue).enc = "render"
       THEN /\ image_state' = Execute(image_state, Head(queued_lists).transitions)
            /\ queued_lists' = Tail(queued_lists)
       ELSE UNCHANGED <<image_state, queued_lists>>
    /\ UNCHANGED <<pc, op, last_op, result, enc, fence_value, fence_completed,
                   local_fence_value, registered, event, blocked, frame_index,
                   swap_index, targets, trace, renders, submitted, hvars, client,
                   dvars, svars, avars, gvars, yvars, rtv_views, recorded>>

\* the queue reaches a Signal: the fence takes the value and the events
\* registered for a value it has reached are set
GpuSignalFence ==
    /\ queue # <<>> /\ Head(queue).type = "signal"
    /\ queue' = Tail(queue)
    /\ fence_completed' = Head(queue).value
    /\ registered' = {v \in registered : v > Head(queue).value}
    /\ event' = (event \/ \E v \in registered : v <= Head(queue).value)
    /\ UNCHANGED <<pc, op, last_op, result, enc, fence_value,
                   local_fence_value, blocked, frame_index, swap_index,
                   targets, trace, renders, submitted, hvars, client, xvars>>

Next ==
    \/ NewCreate
    \/ NewMapView
    \/ NewUnmapView
    \/ NewViews
    \/ NewCheckerboard
    \/ NewMapStaging
    \/ NewUnmapStaging
    \/ SpawnScene
    \/ CallPrepare
    \/ PrepareMeshes
    \/ PrepareMapTransforms
    \/ PrepareTransforms
    \/ PrepareUnmapTransforms
    \/ PrepareMapMaterials
    \/ PrepareMaterials
    \/ PrepareUnmapMaterials
    \/ PrepareApply
    \/ CallImmediateSubmit
    \/ CallRender
    \/ RenderReset
    \/ RenderRecord
    \/ RenderFinish
    \/ RenderSubmit
    \/ RenderPresent
    \/ ImmediateReset
    \/ ImmediateRecord
    \/ ImmediateFinish
    \/ ImmediateSubmit
    \/ WaitSignal
    \/ WaitCheck
    \/ WaitRegister
    \/ WaitForSingleObject
    \/ WaitFrameIndex
    \/ GpuExecuteList
    \/ GpuSignalFence

Spec == Init /\ [][Next]_vars

\* Renderer::new, a scene at the limits of the fixed capacities, and prepare()
CapacityNext ==
    \/ NewCreate
    \/ NewMapView
    \/ NewUnmapView
    \/ NewViews
    \/ NewCheckerboard
    \/ NewMapStaging
    \/ NewUnmapStaging
    \/ CallImmediateSubmit
    \/ ImmediateReset
    \/ ImmediateRecord
    \/ ImmediateFinish
    \/ ImmediateSubmit
    \/ WaitSignal
    \/ WaitCheck
    \/ WaitRegister
    \/ WaitForSingleObject
    \/ WaitFrameIndex
    \/ GpuExecuteList
    \/ GpuSignalFence
    \/ SpawnLargeScene
    \/ CallPrepare
    \/ PrepareMeshes
    \/ PrepareMapTransforms
    \/ PrepareTransforms
    \/ PrepareUnmapTransforms
    \/ PrepareMapMaterials
    \/ PrepareMaterials
    \/ PrepareUnmapMaterials
    \/ PrepareApply

CapacitySpec == Init /\ [][CapacityNext]_vars

\* the program with a scene of several mesh nodes
DrawNext ==
    \/ NewCreate
    \/ NewMapView
    \/ NewUnmapView
    \/ NewViews
    \/ NewCheckerboard
    \/ NewMapStaging
    \/ NewUnmapStaging
    \/ CallImmediateSubmit
    \/ ImmediateReset
    \/ ImmediateRecord
    \/ ImmediateFinish
    \/ ImmediateSubmit
    \/ SpawnDrawScene
    \/ CallPrepare
    \/ PrepareMeshes
    \/ PrepareMapTransforms
    \/ PrepareTransforms
    \/ PrepareUnmapTransforms
    \/ PrepareMapMaterials
    \/ PrepareMaterials
    \/ PrepareUnmapMaterials
    \/ PrepareApply
    \/ CallRender
    \/ RenderReset
    \/ RenderRecord
    \/ RenderFinish
    \/ RenderSubmit
    \/ RenderPresent
    \/ WaitSignal
    \/ WaitCheck
    \/ WaitRegister
    \/ WaitForSingleObject
    \/ WaitFrameIndex
    \/ GpuExecuteList
    \/ GpuSignalFence

DrawSpec == Init /\ [][DrawNext]_vars

\* a step of the method the thread is executing
MethodStep ==
    \/ RenderReset
    \/ RenderRecord
    \/ RenderFinish
    \/ RenderSubmit
    \/ RenderPresent
    \/ ImmediateReset
    \/ ImmediateRecord
    \/ ImmediateFinish
    \/ ImmediateSubmit
    \/ WaitSignal
    \/ WaitCheck
    \/ WaitRegister
    \/ WaitForSingleObject
    \/ WaitFrameIndex

\* Renderer::new and the render loop on an empty world
FrameNext ==
    \/ NewCreate
    \/ NewMapView
    \/ NewUnmapView
    \/ NewViews
    \/ NewCheckerboard
    \/ NewMapStaging
    \/ NewUnmapStaging
    \/ CallImmediateSubmit
    \/ CallRender
    \/ RenderReset
    \/ RenderRecord
    \/ RenderFinish
    \/ RenderSubmit
    \/ RenderPresent
    \/ ImmediateReset
    \/ ImmediateRecord
    \/ ImmediateFinish
    \/ ImmediateSubmit
    \/ WaitSignal
    \/ WaitCheck
    \/ WaitRegister
    \/ WaitForSingleObject
    \/ WaitFrameIndex
    \/ GpuExecuteList
    \/ GpuSignalFence

\* the same under a GPU that completes whatever was submitted to its queue and
\* a thread that goes on running while it is not blocked in WaitForSingleObject
FairFrameSpec ==
    /\ Init /\ [][FrameNext]_vars
    /\ WF_vars(GpuExecuteList)
    /\ WF_vars(GpuSignalFence)
    /\ WF_vars(MethodStep)

TypeOK ==
    /\ pc \in {"idle", "exit", "r_reset", "r_record", "r_finish", "r_submit",
               "r_present", "i_reset", "i_record", "i_finish", "i_submit",
               "w_signal", "w_check", "w_register", "w_wait", "w_frame",
               "new", "n_map_view", "n_unmap_view", "n_views", "n_checkerboard",
               "n_map_staging", "n_unmap_staging", "panic", "crash",
               "p_mesh", "p_map_transform", "p_transform", "p_unmap_transform",
               "p_map_material", "p_material", "p_unmap_material", "p_apply"}
    /\ op \in {"none", "render", "immediate"}
    /\ frame_index \in 0..(BufferCount - 1)
    /\ swap_index \in 0..(BufferCount - 1)
    /\ fence_completed < fence_value


\* ---------------------------------------------------------- DescriptorHeap


\* variant: self.items is not incremented
CreateDescriptor_NoIncrement(kind) ==
    /\ created < MaxCreates
    /\ slots' = WriteSlot(slots, items, [kind |-> kind, call |-> created + 1])
    /\ items' = items
    /\ last_id' = IF ReturnsId(kind) THEN <<items>> ELSE <<>>
    /\ created' = created + 1
    /\ UNCHANGED <<rvars, client, xvars>>

\* let idx = self.items; Create*View(.., handle(idx)); self.items += 1; [Id(idx)]
CreateDescriptor(kind) ==
    /\ created < MaxCreates
    /\ slots' = WriteSlot(slots, items, [kind |-> kind, call |-> created + 1])
    /\ items' = items + 1
    /\ last_id' = IF ReturnsId(kind) THEN <<items>> ELSE <<>>
    /\ created' = created + 1
    /\ UNCHANGED <<rvars, client, xvars>>

create_rtv == CreateDescriptor("rtv")

create_dsv == CreateDescriptor("dsv")

create_sampler == CreateDescriptor("sampler")

create_srv == CreateDescriptor("srv")

create_cbv == CreateDescriptor("cbv")

HeapNext ==
    \/ create_rtv
    \/ create_dsv
    \/ create_sampler
    \/ create_srv
    \/ create_cbv

\* one descriptor heap, starting empty, under any mix of create_* calls
HeapSpec == Init /\ [][HeapNext]_vars

\* ------------------------------------------------ Device under any caller
DeviceCall(call, res, id, len, arg) ==
    /\ dev_ret' = [call |-> call, res |-> res, id |-> id, len |-> len, arg |-> arg]
    /\ UNCHANGED <<rvars, hvars, client, svars, avars, gvars, yvars, tvars>>

\* create_resource(..)? returns before the table is touched
create_buffer ==
    /\ ~dropped
    /\ Len(allocs) < MaxAllocs
    /\ \E size \in 0..MaxSize :
         \/ LET r == PushBuffer(buffers, size, Len(allocs) + 1) IN
              /\ buffers' = r.table
              /\ allocs' = Append(allocs, "buffer")
              /\ DeviceCall("create_buffer", "ok", <<r.id>>, 0, <<size>>)
              /\ UNCHANGED <<images, freed, dropped, mapped>>
         \/ /\ DeviceCall("create_buffer", "err", <<>>, 0, <<size>>)
            /\ UNCHANGED <<buffers, images, allocs, freed, dropped, mapped>>

create_image ==
    /\ ~dropped
    /\ Len(allocs) < MaxAllocs
    /\ \E width \in 1..MaxDim, height \in 1..MaxDim :
         \/ LET r == PushImage(images, width, height, Len(allocs) + 1) IN
              /\ images' = r.table
              /\ allocs' = Append(allocs, "image")
              /\ DeviceCall("create_image", "ok", <<r.id>>, 0, <<width, height>>)
              /\ UNCHANGED <<buffers, freed, dropped, mapped>>
         \/ /\ DeviceCall("create_image", "err", <<>>, 0, <<width, height>>)
            /\ UNCHANGED <<buffers, images, allocs, freed, dropped, mapped>>

\* Map(..)? then a slice of size / size_of::<T>() elements
map_buffer ==
    /\ ~dropped
    /\ Len(mapped) < MaxMaps
    /\ \E id \in 0..(Len(buffers) - 1), elem \in 1..MaxElem :
         \/ /\ mapped' = Append(mapped, id)
            /\ DeviceCall("map_buffer", "ok", <<id>>, MapLen(get_buffer(id).size, elem), <<elem>>)
         \/ /\ mapped' = mapped
            /\ DeviceCall("map_buffer", "err", <<id>>, 0, <<elem>>)
    /\ UNCHANGED <<buffers, images, allocs, freed, dropped>>

unmap_buffer ==
    /\ ~dropped
    /\ \E id \in 0..(Len(buffers) - 1) :
         /\ mapped' = RemoveFirst(mapped, id)
         /\ DeviceCall("unmap_buffer", "unit", <<id>>, 0, <<>>)
    /\ UNCHANGED <<buffers, images, allocs, freed, dropped>>

\* variant: only the buffers are drained
DropDevice_BuffersOnly ==
    /\ ~dropped
    /\ freed' = freed \o Allocations(buffers)
    /\ images' = images
    /\ buffers' = <<>>
    /\ dropped' = TRUE
    /\ mapped' = mapped
    /\ allocs' = allocs
    /\ DeviceCall("drop", "unit", <<>>, 0, <<>>)

\* impl Drop for Device: images, then buffers, are drained and freed
DropDevice ==
    /\ ~dropped
    /\ freed' = freed \o Allocations(images) \o Allocations(buffers)
    /\ images' = <<>>
    /\ buffers' = <<>>
    /\ dropped' = TRUE
    /\ mapped' = mapped
    /\ allocs' = allocs
    /\ DeviceCall("drop", "unit", <<>>, 0, <<>>)

DeviceNext ==
    \/ create_buffer
    \/ create_image
    \/ map_buffer
    \/ unmap_buffer
    \/ DropDevice

DeviceSpec == Init /\ [][DeviceNext]_vars

\* ------------------------------------------------------------------ Assets
\* variant: the handle is built from the count after the increment
push_IdxAfterIncrement ==
    /\ Len(asset_items) < MaxPushes
    /\ \E item \in 0..MaxItem :
         /\ asset_items' = Append(asset_items, item)
         /\ asset_count' = asset_count + 1
         /\ handles' = handles \cup {[idx |-> asset_count + 1, item |-> item]}
         /\ got' = [call |-> "push", idx |-> asset_count + 1, item |-> <<item>>]
    /\ UNCHANGED <<rvars, hvars, client, dvars, svars, gvars, yvars, tvars>>

push ==
    /\ Len(asset_items) < MaxPushes
    /\ \E item \in 0..MaxItem :
         /\ asset_items' = Append(asset_items, item)
         /\ asset_count' = asset_count + 1
         /\ handles' = handles \cup {[idx |-> asset_count, item |-> item]}
         /\ got' = [call |-> "push", idx |-> asset_count, item |-> <<item>>]
    /\ UNCHANGED <<rvars, hvars, client, dvars, svars, gvars, yvars, tvars>>

\* get with a handle some earlier push returned
get ==
    /\ \E h \in handles :
         got' = [call |-> "get", idx |-> h.idx, item |-> AssetsGet(asset_items, h.idx)]
    /\ UNCHANGED <<rvars, hvars, client, dvars, svars, gvars, yvars, tvars, asset_items, asset_count, handles>>

AssetsNext ==
    \/ push
    \/ get

\* one Assets<T> table, starting empty
AssetsSpec == Init /\ [][AssetsNext]_vars

\* ------------------------------------------- CommandEncoder under any caller
\* A holder of &CommandEncoder (the closure of immediate_submit receives one)
\* can call reset, finish and the recording methods in any order.
ClientCall(e, call, o) ==
    /\ enc' = [enc EXCEPT ![e] = o.enc]
    /\ client' = [client EXCEPT ![e] = [call |-> call, before |-> enc[e].state,
                                        outcome |-> o.res, prev |-> client[e].call]]
    /\ UNCHANGED <<pc, op, last_op, result, queue, fence_value, fence_completed,
                   local_fence_value, registered, event, blocked, frame_index,
                   swap_index, targets, trace, renders, submitted, hvars, xvars>>

ClientReset == \E e \in Encoders : \E o \in ResetOutcomes(enc[e]) : ClientCall(e, "reset", o)

ClientRecord ==
    \E e \in Encoders :
        /\ enc[e].cmds < MaxCmds
        /\ \E o \in RecordOutcomes(enc[e]) : ClientCall(e, "record", o)

ClientFinish == \E e \in Encoders : \E o \in FinishOutcomes(enc[e]) : ClientCall(e, "finish", o)

EncoderNext ==
    \/ ClientReset
    \/ ClientRecord
    \/ ClientFinish

EncoderSpec == Init /\ [][EncoderNext]_vars


\* ------------------------------------------------------ import and spawning
\* A Mat4 restricted to the maps x |-> a * x + b of one axis (a uniform scale
\* and a translation); Mul(p, q) is the matrix product p * q, the map that
\* applies q first.
Affine(a, b) == [a |-> a, b |-> b]
Mul(p, q) == Affine(p.a * q.a, p.a * q.b + p.b)

\* local transforms a document gives its nodes: identity, a scale, a translation
Locals == {Affine(1, 0), Affine(2, 0), Affine(1, 1)}

GltfNode(mesh_idx, local_transform, parent, children) ==
    [mesh_idx |-> mesh_idx, local_transform |-> local_transform,
     parent |-> parent, children |-> children]

\* number of links from node i up to a node without parent (n + 1 on a cycle)
RECURSIVE Height(_, _, _)
Height(par, i, fuel) ==
    IF par[i] = 0 THEN 0
    ELSE IF fuel = 0 THEN 1
    ELSE 1 + Height(par, par[i], fuel - 1)

\* the node graphs of documents of n nodes: every node has at most one parent
\* and no node is its own ancestor
Forests(n) == {par \in [1..n -> 0..n] : \A i \in 1..n : Height(par, i, n) <= n - 1}

\* load_gltf, the node loops: node i of the document becomes nodes[i], its
\* children are listed in document order, and the nodes without parent are
\* the top nodes
LoadNodes(par, loc, meshes) ==
    LET n == Len(loc)
        ids == [i \in 1..n |-> i]
        IsTop(i) == par[i] = 0
    IN  [nodes |-> [i \in 1..n |->
                       LET IsChild(c) == par[c] = i
                       IN  GltfNode(IF i <= meshes THEN <<0>> ELSE <<>>, loc[i],
                                    IF par[i] = 0 THEN <<>> ELSE <<par[i]>>,
                                    SelectSeq(ids, IsChild))],
         top_nodes |-> SelectSeq(ids, IsTop)]

\* spawn_node, the GlobalTransform: node.local_transform * parent.local_transform
\* when a parent is passed, the local transform otherwise
SpawnTransform(node, parent) ==
    IF parent = <<>> THEN node.local_transform
    ELSE Mul(node.local_transform, parent[1].local_transform)

\* spawn_node(world, gltf, node, parent): the children are spawned first, in
\* order, each with `node` as parent; then the entity of the node, with the
\* mesh and material handles of a mesh node, the GlobalTransform, and the
\* ParentOf added last. st holds the world and the node of each entity.
RECURSIVE SpawnNode(_, _, _, _)
RECURSIVE SpawnChildren(_, _, _, _, _)
SpawnChildren(st, nodes, cs, k, parent) ==
    IF k > Len(cs) THEN st
    ELSE LET one == SpawnNode(st, nodes, cs[k], parent)
         IN  After(one, SpawnChildren(one, nodes, cs, k + 1, parent))

SpawnNode(st, nodes, i, parent) ==
    LET node == nodes[i]
        t    == SpawnTransform(node, parent)
        sub  == SpawnChildren(st, nodes, node.children, 1, <<node>>)
    IN  [world |-> Append(sub.world,
                      [mesh |-> node.mesh_idx, material |-> node.mesh_idx,
                       transform |-> <<t>>,
                       parent_of |-> IF node.children = <<>> THEN <<>>
                                     ELSE <<Len(sub.world)>>,
                       gpu_mesh |-> <<>>, gpu_material |-> <<>>, gpu_transform |-> <<>>]),
         spawned |-> Append(sub.spawned, i)]

\* load_gltf(..)?: a document of up to MaxNodes nodes, or an import error
load_gltf ==
    /\ import_pc = "load"
    /\ \/ /\ \E n \in 1..MaxNodes : \E par \in Forests(n) : \E loc \in [1..n -> Locals] :
               \E meshes \in 0..n :
                 gltf' = LoadNodes(par, loc, meshes)
          /\ import_pc' = "spawn"
       \/ /\ import_pc' = "exit"
          /\ UNCHANGED gltf
    /\ UNCHANGED <<rvars, hvars, client, dvars, svars, avars, yvars, tvars, spawned>>

\* for top_node in &gltf.top_nodes { spawn_node(.., None) }: one top node
SpawnTopNode ==
    /\ import_pc = "spawn"
    /\ LET done == {i \in 1..Len(gltf.top_nodes) :
                      \E e \in 1..Len(spawned) : spawned[e] = gltf.top_nodes[i]}
           k == Cardinality(done) + 1
       IN  /\ k <= Len(gltf.top_nodes)
           /\ LET st == SpawnNode([world |-> world, spawned |-> spawned], gltf.nodes,
                                  gltf.top_nodes[k], <<>>)
              IN  /\ world' = st.world
                  /\ spawned' = st.spawned
    /\ UNCHANGED <<rvars, hvars, client, dvars, avars, yvars, tvars, gltf, import_pc, commands,
                   drawn, prepares, heap_items, transform_writes, material_writes,
                   bufviews>>

\* world.spawn((Camera, GlobalTransform)) after the loop
SpawnCamera ==
    /\ import_pc = "spawn"
    /\ \A i \in 1..Len(gltf.top_nodes) :
          \E e \in 1..Len(spawned) : spawned[e] = gltf.top_nodes[i]
    /\ world' = Append(world, PlainNode(0))
    /\ spawned' = Append(spawned, 0)
    /\ import_pc' = "spawned"
    /\ UNCHANGED <<rvars, hvars, client, dvars, avars, yvars, tvars, gltf, commands,
                   drawn, prepares, heap_items, transform_writes, material_writes,
                   bufviews>>

ImportNext ==
    \/ load_gltf
    \/ SpawnTopNode
    \/ SpawnCamera

\* main from load_gltf to the spawn of the camera, for any document
ImportSpec == Init /\ [][ImportNext]_vars


\* ========================================================================
\* Properties
\* ========================================================================
RenderPath == <<"reset", "record", "finish", "submit", "present", "signal",
                "register", "wait", "frame_index">>
RenderPathNoWait == <<"reset", "record", "finish", "submit", "present",
                      "signal", "frame_index">>
ImmediatePath == <<"reset", "record", "finish", "submit", "signal",
                   "register", "wait", "frame_index">>
ImmediatePathNoWait == <<"reset", "record", "finish", "submit", "signal",
                         "frame_index">>

IsPrefix(s, t) == Len(s) <= Len(t) /\ SubSeq(t, 1, Len(s)) = s

Running(m) == op = m \/ (op = "none" /\ last_op = m)

\* C1: render() resets the render command encoder (and its allocator) only
\* after the GPU has completed the command list submitted by the previous
\* render(), on every path of the application loop, error returns included.
C1_ResetAfterCompletion ==
    [][(pc = "r_reset" /\ pc' # "r_reset") => ~InFlight("render")]_vars

\* C2: when wait_for_previous_frame gets past its wait (it then only reads the
\* back-buffer index and returns Ok), the fence's completed value is at least
\* the value this call signaled, and no command list submitted before the call
\* is still on the queue.
C2_WaitCompletes ==
    pc = "w_frame" => (fence_completed >= local_fence_value /\ NoListQueued)

C2_Witness ==
    /\ pc = "w_frame" /\ blocked /\ op = "render"
    /\ fence_completed >= local_fence_value /\ submitted >= 2

\* C3: fence_value starts at 1, and whenever the renderer is between two
\* method calls it equals 1 plus the number of command lists submitted (one
\* increment per submission);
\* the values signaled on the queue are strictly increasing and none is
\* signaled twice.
SignalValues == [i \in 1..Len(queue) |-> queue[i].value]

C3_OneIncrementPerSubmission ==
    /\ fence_value >= InitialFenceValue
    /\ pc = "idle" => fence_value = InitialFenceValue + submitted
    /\ \A i, j \in 1..Len(queue) :
          (i < j /\ queue[i].type = "signal" /\ queue[j].type = "signal")
              => SignalValues[i] < SignalValues[j]
    /\ \A i \in 1..Len(queue) :
          queue[i].type = "signal"
              => (fence_completed < SignalValues[i] /\ SignalValues[i] < fence_value)

\* C4: wait_for_previous_frame goes on to register the event and wait exactly
\* when the completed value is below the value it just signaled; otherwise it
\* goes straight to the frame_index update without registering or waiting.
C4_BlocksOnlyIfBehind ==
    [][(pc = "w_check" /\ pc' # "w_check") =>
          IF fence_completed < local_fence_value
          THEN pc' = "w_register"
          ELSE pc' = "w_frame" /\ registered' = registered /\ event' = event
                               /\ blocked' = blocked]_vars

C4_Witness ==
    /\ pc = "w_frame" /\ ~blocked
    /\ fence_completed >= local_fence_value
    /\ registered = {} /\ ~event
    /\ trace[Len(trace)] = "signal"

\* C5: after every render() call frame_index equals the swapchain's current
\* back-buffer index, and two consecutive render() calls never record into
\* the same back-buffer index.
C5_FramePacing ==
    /\ (pc = "idle" /\ last_op = "render") => frame_index = swap_index
    /\ Len(targets) = 2 => targets[1] # targets[2]

\* C6: within one render() the steps reset, record, finish, submit, Present,
\* signal, (register and wait), frame_index update happen in this order, none
\* skipped before a later one and none repeated, and frame_index is written by
\* no step other than the last.
C6_RenderOrder ==
    /\ [](Running("render") =>
             (IsPrefix(trace, RenderPath) \/ IsPrefix(trace, RenderPathNoWait)))
    /\ [][frame_index' # frame_index => pc = "w_frame"]_vars

C6_Witness ==
    /\ pc = "idle" /\ last_op = "render" /\ result = "ok"
    /\ trace = RenderPath
    /\ frame_index = 1

\* C7: encoders are created closed; the recording calls of render() and of
\* immediate_submit() are made on a list that reset() has opened and finish()
\* has not yet closed; finish() is called on a recording list only; a list is
\* closed when it is submitted; an encoder no method is working on is closed.
C7_RecordBetweenResetAndFinish ==
    /\ pc \in {"r_record", "i_record", "r_finish", "i_finish"}
          => enc[CurEnc].state = "recording"
    /\ pc \in {"r_submit", "i_submit"}
          => (enc[CurEnc].state = "closed" /\ trace[Len(trace)] = "finish")
    /\ \A e \in Encoders :
          (e # CurEnc \/ pc \notin {"r_record", "i_record", "r_finish", "i_finish"})
              => enc[e].state = "closed"
    /\ Len(SelectSeq(trace, LAMBDA l : l = "finish"))
          <= Len(SelectSeq(trace, LAMBDA l : l = "reset"))
    /\ Len(SelectSeq(trace, LAMBDA l : l = "reset")) <= 1

C7_Witness ==
    /\ pc = "r_submit" /\ renders >= 2
    /\ enc["render"].cmds = RenderCmds(MaxDraws)
    /\ enc["render"].state = "closed"

\* C8: a second finish() without a reset() in between, or a recording call
\* after finish(), is fatal: its outcome is a panic, never an Err value and
\* never a normal return.
C8_MisuseIsFatal ==
    \A e \in Encoders :
        (client[e].prev = "finish" /\ client[e].call \in {"finish", "record"})
            => client[e].outcome = "panic"

\* C9: immediate_submit performs reset, the closure, finish, submission and
\* the fence wait in this order, and when it has returned Ok no command list
\* of the immediate encoder is left on the queue.
C9_ImmediateSubmit ==
    /\ Running("immediate") =>
          (IsPrefix(trace, ImmediatePath) \/ IsPrefix(trace, ImmediatePathNoWait))
    /\ (op = "none" /\ last_op = "immediate" /\ result = "ok") =>
          /\ ~InFlight("immediate")
          /\ fence_completed >= local_fence_value
          /\ "submit" \in {trace[i] : i \in 1..Len(trace)}

C9_Witness ==
    /\ pc = "idle" /\ last_op = "immediate" /\ result = "ok"
    /\ trace = ImmediatePath
    /\ enc["immediate"].cmds = UploadCmds

\* C10: on a heap that starts empty the k-th create_* call, of whatever kind,
\* writes slot k-1 and, where it returns an id, returns k-1; no slot is
\* written twice.
C10_DenseSlots ==
    /\ items = created
    /\ Len(slots) = created
    /\ \A k \in 1..Len(slots) :
          /\ Len(slots[k]) = 1
          /\ slots[k][1].call = k
    /\ created > 0 =>
          last_id = IF ReturnsId(slots[created][1].kind) THEN <<created - 1>> ELSE <<>>

C10_Witness ==
    /\ created >= 2
    /\ slots[1][1].kind = "rtv"
    /\ slots[2][1].kind = "srv"
    /\ last_id = <<1>>

\* ------------------------------------------------------------------ Device
Count(s, k) == Cardinality({i \in 1..Len(s) : s[i] = k})

Succeeded(call) == dev_ret.call = call /\ dev_ret.res = "ok"

\* C12: the n-th successful create_buffer returns BufferId n-1 and the n-th
\* successful create_image returns ImageId n-1, each kind counting on its own;
\* a creation that fails leaves both tables as they were.
C12_DenseIds ==
    /\ [](Succeeded("create_buffer") =>
            /\ dev_ret.id = <<Count(allocs, "buffer") - 1>>
            /\ Len(buffers) = Count(allocs, "buffer"))
    /\ [](Succeeded("create_image") =>
            /\ dev_ret.id = <<Count(allocs, "image") - 1>>
            /\ Len(images) = Count(allocs, "image"))
    /\ [][(dev_ret'.call \in {"create_buffer", "create_image"} /\ dev_ret'.res = "err")
            => UNCHANGED <<buffers, images, allocs>>]_vars

C12_Witness ==
    /\ Succeeded("create_buffer")
    /\ dev_ret.id = <<0>>
    /\ Len(images) = 1

\* C13: an id resolves, through get_buffer / get_image, to the resource it
\* was returned for, with the size it was created with, whatever is created
\* later; nothing is freed before the Device is dropped, and the drop frees
\* every allocation exactly once.
C13_StableUntilDrop ==
    /\ [](Succeeded("create_buffer") =>
            /\ get_buffer(dev_ret.id[1]).size = dev_ret.arg[1]
            /\ get_buffer(dev_ret.id[1]).allocation = Len(allocs))
    /\ [](Succeeded("create_image") =>
            /\ get_image(dev_ret.id[1]).width = dev_ret.arg[1]
            /\ get_image(dev_ret.id[1]).height = dev_ret.arg[2]
            /\ get_image(dev_ret.id[1]).allocation = Len(allocs))
    /\ [][~dropped' =>
            /\ \A id \in 0..(Len(buffers) - 1) : get_buffer(id)' = get_buffer(id)
            /\ \A id \in 0..(Len(images) - 1) : get_image(id)' = get_image(id)]_vars
    /\ [](~dropped => freed = <<>>)
    /\ [](dropped =>
            /\ Len(freed) = Len(allocs)
            /\ \A a \in 1..Len(allocs) : Count(freed, a) = 1)

C13_Witness ==
    /\ dropped
    /\ Len(freed) = MaxAllocs
    /\ Count(allocs, "buffer") >= 1
    /\ Count(allocs, "image") >= 1

\* C14: the slice map_buffer::<T> returns for a buffer of S bytes has
\* floor(S / size_of::<T>()) elements: it ends at or before byte S, and one
\* more element would not fit.
C14_MapLength ==
    Succeeded("map_buffer") =>
        LET S == get_buffer(dev_ret.id[1]).size
            T == dev_ret.arg[1]
        IN  /\ dev_ret.len * T <= S
            /\ S < (dev_ret.len + 1) * T

C14_Witness ==
    /\ Succeeded("map_buffer")
    /\ get_buffer(dev_ret.id[1]).size % dev_ret.arg[1] # 0
    /\ dev_ret.len >= 1

\* ------------------------------------------------------------------ Assets
\* C20: push returns a handle whose idx is the number of items pushed before;
\* handles are dense and never reused; get of a handle returns the item it
\* was pushed with, also after later pushes; count equals the number of
\* stored items.
C20_DenseHandles ==
    /\ asset_count = Len(asset_items)
    /\ got.call = "push" => got.idx = Len(asset_items) - 1
    /\ {h.idx : h \in handles} = 0..(Len(asset_items) - 1)
    /\ Cardinality(handles) = Len(asset_items)
    /\ \A h \in handles : AssetsGet(asset_items, h.idx) = <<h.item>>
    /\ got.call = "get" =>
          \E h \in handles : h.idx = got.idx /\ got.item = <<h.item>>

C20_Witness ==
    /\ got.call = "get"
    /\ got.idx = 0
    /\ Len(asset_items) = MaxPushes
    /\ \E h \in handles : h.idx > 0 /\ <<h.item>> # got.item

\* --------------------------------------------------------- per-frame errors
\* C18: a Present that fails inside render() makes render() return an error
\* value; whatever render() returns, the application loop is back at the
\* point where it calls render(), and the next call is made.
C18_RenderErrorIsReturned ==
    /\ [][(pc = "r_present" /\ pc' \notin {"r_present", "w_signal"}) =>
            (pc' = "idle" /\ op' = "none" /\ last_op' = "render" /\ result' = "err")]_vars
    /\ [][(op = "render" /\ op' = "none") =>
            (pc' = "idle" /\ result' \in {"ok", "err"})]_vars
    /\ []((pc = "idle" /\ last_op = "render" /\ renders < MaxRenders) => ENABLED CallRender)

C18_Witness ==
    /\ pc = "idle" /\ last_op = "render" /\ result = "ok"
    /\ renders >= 2
    /\ fence_value < InitialFenceValue + submitted

\* -------------------------------------------------------------- capacities
\* C11: no descriptor heap holds more items than the descriptor count it was
\* created with, and no descriptor is written at a slot at or past it.
C11_WithinCapacity ==
    /\ items <= HeapCapacity.cbv
    /\ Len(slots) <= HeapCapacity.cbv
    /\ \A h \in DOMAIN heap_items : heap_items[h] <= HeapCapacity[h]

\* C19: prepare() writes no element at an index at or past the capacity of
\* the transform or the material array, and attaches no offset at or past it.
C19_OverflowIsFatal ==
    /\ \A i \in DOMAIN transform_writes : transform_writes[i].idx < TransformCapacity
    /\ \A i \in DOMAIN material_writes : material_writes[i].idx < MaterialCapacity
    /\ \A e \in DOMAIN world :
         /\ world[e].gpu_transform # <<>> =>
               world[e].gpu_transform[1].offset < TransformCapacity
         /\ world[e].gpu_material # <<>> =>
               world[e].gpu_material[1].offset < MaterialCapacity

\* ------------------------------------------------------------------ prepare
CpuHandles == {"mesh", "material", "transform"}
GpuComponents == {"gpu_mesh", "gpu_material", "gpu_transform"}

HasAll(ent, cs) == \A c \in cs : ent[c] # <<>>

\* positions where the methods of the Renderer, other than new and prepare,
\* run or are about to be called
OutsideNewAndPrepare ==
    {"idle", "r_reset", "r_record", "r_finish", "r_submit", "r_present",
     "i_reset", "i_record", "i_finish", "i_submit",
     "w_signal", "w_check", "w_register", "w_wait", "w_frame"}

\* C15: whenever Renderer::new or prepare() has returned, and at every
\* execute_command_lists, no buffer is mapped: each map_buffer of new and
\* prepare is followed by the unmap_buffer of that buffer before the next
\* submission; at most one buffer is mapped at a time.
C15_UnmappedBeforeSubmit ==
    /\ pc \in OutsideNewAndPrepare => mapped = <<>>
    /\ Len(mapped) <= 1

C15_Witness ==
    /\ pc = "r_submit"
    /\ prepares >= 1
    /\ \E e \in DOMAIN world : world[e].gpu_mesh # <<>>
    /\ mapped = <<>>

\* C16: the draw loop of render() draws no entity that lacks one of GPUMesh,
\* GPUMaterial, GPUTransform, so none before prepare() has run; once a
\* prepare() has returned it draws every entity with a mesh handle, a material
\* handle and a world transform exactly once, three recorded calls per draw.
C16_DrawnOncePrepared ==
    [][(pc = "r_record" /\ pc' = "r_finish") =>
         /\ \A e \in DOMAIN world :
              LET n == Count(drawn', e) IN
              /\ ~HasAll(world[e], GpuComponents) => n = 0
              /\ prepares = 0 => n = 0
              /\ (prepares >= 1 /\ HasAll(world[e], CpuHandles)) => n = 1
         /\ \A i \in DOMAIN drawn' : drawn'[i] \in DOMAIN world
         /\ enc'["render"].cmds = RenderCmds(Len(drawn'))]_vars

C16_Witness ==
    /\ pc = "r_finish"
    /\ renders >= 2
    /\ prepares >= 1
    /\ drawn # <<>>

\* C17: the mesh pass of prepare() creates buffers and a descriptor only for
\* the entities with a mesh handle and no GPUMesh yet, and prepare() leaves
\* the GPUMesh an entity already has as it is.
C17_UploadOnce ==
    /\ [][(pc = "p_mesh" /\ pc' = "p_map_transform") =>
            LET es == Matching(world, {"mesh"})
                fresh == Cardinality({i \in DOMAIN es : world[es[i]].gpu_mesh = <<>>})
            IN  /\ Len(buffers') = Len(buffers) + 2 * fresh
                /\ items' = items + fresh]_vars
    /\ [][(pc = "p_apply" /\ pc' = "idle") =>
            \A e \in DOMAIN world :
                world[e].gpu_mesh # <<>> => world'[e].gpu_mesh = world[e].gpu_mesh]_vars

\* the product of the local transforms of the ancestors of node i and of its
\* own, from the root down to the node: with the ancestors on the left (the
\* column-vector convention of glam) ...
RECURSIVE RootToLeaf(_, _)
RootToLeaf(nodes, i) ==
    IF nodes[i].parent = <<>> THEN nodes[i].local_transform
    ELSE Mul(RootToLeaf(nodes, nodes[i].parent[1]), nodes[i].local_transform)

\* ... or on the right (the order spawn_node multiplies in)
RECURSIVE RootToLeafRight(_, _)
RootToLeafRight(nodes, i) ==
    IF nodes[i].parent = <<>> THEN nodes[i].local_transform
    ELSE Mul(nodes[i].local_transform, RootToLeafRight(nodes, nodes[i].parent[1]))

\* C21: every entity spawned from an imported node carries the world transform
\* that is the product of the local transforms of all its ancestors and its
\* own, composed along the chain from the root to the node, whatever the depth
\* of the node (either side of the product is accepted for the ancestors).
C21_WorldTransformComposed ==
    \A e \in 1..Len(world) :
        (e <= Len(spawned) /\ spawned[e] # 0) =>
            \/ world[e].transform = <<RootToLeaf(gltf.nodes, spawned[e])>>
            \/ world[e].transform = <<RootToLeafRight(gltf.nodes, spawned[e])>>

\* the u32 whose bytes lie at pixel k (counted from 0) of a byte sequence
PixelAt(bytes, k) ==
    U32(bytes[4 * k + 4], bytes[4 * k + 3], bytes[4 * k + 2], bytes[4 * k + 1])

\* C22: the staging buffer handed to the one-shot upload holds 16 * 16 * 4
\* bytes, the 256 pixels of the checkerboard in row-major order: the pixel at
\* column i, row j is 0xFFFF00FF when i and j differ in parity, 0xFF000000
\* otherwise.
C22_Checkerboard ==
    op = "immediate" =>
        /\ Len(staging) = 16 * 16 * 4
        /\ get_buffer(Len(buffers) - 1).size = Len(staging)
        /\ \A i \in 0..15, j \in 0..15 :
              PixelAt(staging, j * 16 + i) =
                  IF (i % 2 = 0 /\ j % 2 = 1) \/ (i % 2 = 1 /\ j % 2 = 0)
                  THEN <<255, 255, 0, 255>> ELSE <<255, 0, 0, 0>>

C22_Witness == pc = "i_record" /\ staging # <<>>

\* C23: the i-th entity of the transform iteration gets GPUTransform offset i
\* and its transform is stored in element i of the transform array, at byte
\* offset i * size_of::<GlobalTransform>(); after prepare() the offsets of the
\* n entities with a transform are 0..n-1 and the element at each entity's
\* offset holds that entity's transform.
C23_SequentialTransforms ==
    /\ \A k \in DOMAIN transform_writes :
          /\ transform_writes[k].idx = k - 1
          /\ transform_writes[k].at = (k - 1) * SizeOf.GlobalTransform
    /\ (pc = "idle" /\ prepares >= 1) =>
          LET es == Matching(world, {"transform"}) IN
            /\ Len(transform_writes) = Len(es)
            /\ \A k \in 1..Len(es) :
                  /\ world[es[k]].gpu_transform =
                        <<[buffer |-> bufviews.transform_buffer, offset |-> k - 1]>>
                  /\ transform_writes[k].entity = es[k]

\* the value that lies at byte `at` of a buffer after the writes ws (<<>>: none)
Stored(ws, at) ==
    LET ks == {k \in DOMAIN ws : ws[k].at = at}
    IN  IF ks = {} THEN <<>>
        ELSE <<ws[CHOOSE k \in ks : \A j \in ks : j <= k].value>>

\* C24: after prepare(), the element of the material array at the
\* GPUMaterial.offset of every entity with a material handle holds the uniform
\* block of the material the handle resolves to, and GPUMaterial.buffer is the
\* shared material buffer view; a handle missing from the table makes prepare()
\* fail fatally without attaching any component.
C24_MaterialResolved ==
    /\ (pc = "idle" /\ prepares >= 1) =>
          \A e \in DOMAIN world : world[e].material # <<>> =>
              /\ world[e].gpu_material # <<>>
              /\ world[e].gpu_material[1].buffer = bufviews.material_buffer
              /\ AssetsGet(asset_items, world[e].material[1]) # <<>>
              /\ Stored(material_writes,
                        world[e].gpu_material[1].offset * SizeOf.MaterialUniform)
                   = <<AssetsGet(asset_items, world[e].material[1])[1].uniform>>
    /\ (\E e \in DOMAIN world : world[e].material # <<>>
             /\ AssetsGet(asset_items, world[e].material[1]) = <<>>) =>
          /\ pc \notin {"p_unmap_material", "p_apply"}
          /\ prepares >= 1 => pc # "idle"
          /\ \A e \in DOMAIN world : \A c \in GpuComponents : world[e][c] = <<>>

PreparePasses == {"p_mesh", "p_map_transform", "p_transform", "p_unmap_transform",
                  "p_map_material", "p_material", "p_unmap_material"}

\* C25: prepare() attaches nothing to the world while its queries iterate: the
\* attachments of the three passes are collected in one command batch, which
\* is applied once, after the last pass; a prepare() that aborts before leaves
\* the world as it found it.
C25_DeferredAttachments ==
    /\ [][(pc \in PreparePasses) => (world' = world)]_vars
    /\ [][(pc = "p_apply") =>
            \/ pc' = "p_apply" /\ world' = world /\ commands' = commands
            \/ /\ pc' = "idle"
               /\ world' = RunOn(commands, world, 1, Len(commands))
               /\ commands' = <<>>]_vars
    /\ [](pc = "p_apply" =>
            Len(commands) = Len(Matching(world, {"mesh"}))
                            + Len(Matching(world, {"transform"}))
                            + Len(Matching(world, {"material"})))
    /\ []((prepares = 1 /\ pc \in PreparePasses \cup {"p_apply", "panic", "crash"}) =>
            \A e \in DOMAIN world : \A c \in GpuComponents : world[e][c] = <<>>)

C25_Witness ==
    /\ pc = "idle" /\ prepares >= 1
    /\ \E e \in DOMAIN world : HasAll(world[e], GpuComponents)

\* C26: for every entity drawn by render(), the root-constant block pushed
\* right before its indexed draw carries that entity's vertex-buffer view,
\* transform view and offset, material view and offset and the view-uniform
\* index of the renderer, and the draw uses that entity's index buffer and
\* index count; every draw is preceded by the push for the same entity.
C26_RootConstantsPerDraw ==
    [][(pc = "r_record" /\ pc' = "r_finish") =>
         /\ Len(draw_calls') = 3 * Len(drawn')
         /\ \A k \in DOMAIN drawn' :
               LET e == world[drawn'[k]]
                   block == draw_calls'[3 * k - 2]
                   bound == draw_calls'[3 * k - 1]
                   drawcall == draw_calls'[3 * k]
               IN  /\ block.call = "set_root_constants"
                   /\ block.args.vertex_buffer_id = e.gpu_mesh[1].vertex_buffer.view
                   /\ block.args.transform_buffer_id = e.gpu_transform[1].buffer.view
                   /\ block.args.transform_offset = e.gpu_transform[1].offset
                   /\ block.args.material_buffer_index = e.gpu_material[1].buffer.view
                   /\ block.args.material_offset = e.gpu_material[1].offset
                   /\ block.args.view_buffer_index = bufviews.view_buffer.view
                   /\ bound.call = "bind_index_buffer"
                   /\ bound.args.buffer = e.gpu_mesh[1].index_buffer
                   /\ drawcall.call = "draw_indexed_instanced"
                   /\ drawcall.args.index_count = e.gpu_mesh[1].index_count
         /\ \A n \in DOMAIN draw_calls' :
               draw_calls'[n].call = "draw_indexed_instanced" =>
                   n >= 3 /\ draw_calls'[n - 2].call = "set_root_constants"]_vars

C26_Witness ==
    /\ pc = "r_finish" /\ Len(drawn) >= 2
    /\ world[drawn[1]].gpu_mesh # world[drawn[2]].gpu_mesh
    /\ world[drawn[1]].gpu_transform[1].offset # world[drawn[2]].gpu_transform[1].offset

\* C27: the view of each shared array covers the whole array: NumElements of
\* the material view is the number of MaterialUniform entries of the material
\* buffer (200), that of the transform view the number of GlobalTransform
\* entries of the transform buffer (1000).
C27_ViewsCoverBuffers ==
    srv_desc # <<>> =>
        \A b \in {"transform_buffer", "material_buffer"} :
            /\ srv_desc[b].FirstElement = 0
            /\ srv_desc[b].NumElements =
                   MapLen(get_buffer(bufviews[b].buffer).size, srv_desc[b].StructureByteStride)

\* C28: with a GPU that completes every submitted list and signal, every
\* render() and immediate_submit() returns; they block nowhere but in the
\* fence wait, and what they wait for there is a value whose signal has
\* already been enqueued on the queue.
C28_CallsReturn ==
    /\ (op # "none") ~> (op = "none")
    /\ []((op # "none" /\ pc # "w_wait") => ENABLED MethodStep)
    /\ [](pc = "w_wait" =>
            /\ local_fence_value < fence_value
            /\ \/ fence_completed >= local_fence_value
               \/ \E i \in DOMAIN queue : queue[i] = SignalItem(local_fence_value)
            /\ event \/ local_fence_value \in registered)

C28_Witness == op = "render" /\ pc = "w_wait" /\ ~event /\ renders >= 2

\* wait_for_previous_frame returns an error from the step at `at`
WaitFails(at) == pc = at /\ op # "none" /\ op' = "none" /\ result' = "err"

\* C29 (as stated): when wait_for_previous_frame returns an error, from the
\* signal or from the registration of the event, fence_value and frame_index
\* are what they were before the call.
C29_WaitErrorKeepsState ==
    /\ [][(pc \in {"w_signal", "w_check", "w_register"}) => (frame_index' = frame_index)]_vars
    /\ [][WaitFails("w_signal") => (fence_value' = local_fence_value')]_vars
    /\ [][WaitFails("w_register") => (fence_value' = local_fence_value)]_vars

\* C29 (amended): when the signal fails, fence_value and frame_index are what
\* they were before the call; when the registration of the event fails, the
\* signal has been enqueued and fence_value is one more than before the call,
\* and frame_index is what it was.
C29_WaitErrorState ==
    /\ [][(pc \in {"w_signal", "w_check", "w_register"}) => (frame_index' = frame_index)]_vars
    /\ [][WaitFails("w_signal") =>
            (fence_value' = fence_value /\ fence_value' = local_fence_value'
             /\ queue' = queue)]_vars
    /\ [][WaitFails("w_register") =>
            /\ fence_value' = local_fence_value + 1
            /\ \/ fence_completed >= local_fence_value
               \/ \E i \in DOMAIN queue : queue[i] = SignalItem(local_fence_value)]_vars

C29_Witness ==
    /\ op = "none" /\ last_op = "render" /\ result = "err"
    /\ trace # <<>> /\ trace[Len(trace)] = "register"
    /\ fence_value = local_fence_value + 1

\* the resource states once every render list now on the queue has run
RECURSIVE AfterQueue(_, _)
AfterQueue(states, lists) ==
    IF lists = <<>> THEN states
    ELSE AfterQueue(Execute(states, Head(lists).transitions), Tail(lists))

\* every barrier of the list finds its image in the state it declares
RECURSIVE Declared(_, _)
Declared(states, ts) ==
    \/ ts = <<>>
    \/ /\ states[Head(ts).image + 1] = Head(ts).before
       /\ Declared(Execute(states, <<Head(ts)>>), Tail(ts))

\* C30: at the start of every render() frame_index is 0 or 1 and
\* render_targets[frame_index] is, in the order of the queue, in the PRESENT
\* state the recorded transition declares; the view bound and cleared at slot
\* frame_index of the rtv heap is a view of that image; and every submitted
\* list leaves the image in PRESENT
C30_RenderTargetState ==
    /\ frame_index \in 0..(BufferCount - 1)
    /\ (pc = "r_reset")
          => /\ AfterQueue(image_state, queued_lists)[RenderTargets[frame_index + 1] + 1]
                  = "PRESENT"
             /\ rtv_views[frame_index + 1] = RenderTargets[frame_index + 1]
    /\ (pc \in {"r_finish", "r_submit"})
          => /\ recorded.transitions[1].image = RenderTargets[frame_index + 1]
             /\ recorded.transitions[1].before = "PRESENT"
             /\ rtv_views[recorded.rtv + 1] = recorded.transitions[1].image
             /\ Declared(AfterQueue(image_state, queued_lists), recorded.transitions)
    /\ \A k \in 1..Len(queued_lists) :
          /\ Declared(AfterQueue(image_state, SubSeq(queued_lists, 1, k - 1)),
                      queued_lists[k].transitions)
          /\ AfterQueue(image_state, SubSeq(queued_lists, 1, k))
                [queued_lists[k].transitions[1].image + 1] = "PRESENT"

\* a render() starts while a list that draws to its image is still on the queue
C30_Witness ==
    /\ pc = "r_reset"
    /\ queued_lists # <<>>
    /\ queued_lists[Len(queued_lists)].transitions[1].image = RenderTargets[frame_index + 1]

====
